---- MODULE Spec2Model ----
(***************************************************************************)
(* A model of deppy's resolution engine (src/src/lib.rs): the registry     *)
(* built by ServiceCollectionBuilder, the root ServiceCollection, the      *)
(* ServiceScope objects derived from it, the two cache tiers and the       *)
(* synchronous and asynchronous resolvers, run by concurrent threads.      *)
(*                                                                         *)
(* Option<T> is a sequence of length 0 (None) or 1 (Some).  A HashMap is   *)
(* a function whose DOMAIN is its key set.  An Arc<RwLock<HashMap>> is an  *)
(* index into `heap`, so that two handles to one cache object are told     *)
(* apart from two equal copies.                                            *)
(***************************************************************************)
EXTENDS Integers, Sequences, FiniteSets, TLC

(* ------------------------------ bounds --------------------------------- *)
\* Spec: concurrent threads, their top-level calls and the scopes they open
MaxThreads == 2
MaxScopes == 1
MaxCalls == 2
\* the resolver frames one thread's stack has room for
MaxDepth == 4
\* SpecBuild: the registration calls made on one builder
MaxRegistrations == 2
\* SpecSeq: the calls and scopes of one thread
SeqScopes == 2
SeqCalls == 2

Threads == 1..MaxThreads

(* --------------------------- types of the code ------------------------- *)
TypeIds == {"A", "B", "C"}

Singleton == "Singleton"
Scoped == "Scoped"
Transient == "Transient"
ServiceType == {Singleton, Scoped, Transient}

None == <<>>
Some(x) == <<x>>

EmptyMap == [x \in {} |-> 0]

\* HashMap::get
Get(m, k) == IF k \in DOMAIN m THEN Some(m[k]) ELSE None

\* Mutant: a present key keeps its value.
InsertIfAbsent(m, k, v) ==
    [x \in (DOMAIN m) \cup {k} |-> IF x \in DOMAIN m THEN m[x] ELSE v]

\* HashMap::insert: a present key is overwritten
Insert(m, k, v) == [x \in (DOMAIN m) \cup {k} |-> IF x = k THEN v ELSE m[x]]

(* -------------------------- the registry builder ----------------------- *)
\* The fields a derived Injectable resolves, in declaration order: the chain
\* A -> B -> C.
InjectFields == [A |-> <<"B">>, B |-> <<"C">>, C |-> <<>>]

\* DefaultInitializer for T: I::inject(handler)
DefaultInitializer(T) == [name |-> "DefaultInitializer", deps |-> InjectFields[T]]

\* ServiceCollectionBuilder::default()
NewBuilder == [services |-> EmptyMap, scoped_services |-> EmptyMap]

\* Mutant: a synchronous registration keeps the asynchronous factory an
\* earlier registration of the key left.
add_service_keeps_async(b, T, type_, initializer) ==
    LET information == [initialize_fn |-> [init |-> initializer, adapter |-> "call"],
                        initialize_async_fn |->
                            IF T \in DOMAIN b.services
                            THEN b.services[T].initialize_async_fn ELSE None,
                        type_ |-> type_]
    IN [services |-> Insert(b.services, T, information),
        scoped_services |-> Insert(b.scoped_services, T, information)]

\* add_service::<T, I>(type_, initializer): both registries get the
\* initializer called directly, and no asynchronous factory.
add_service(b, T, type_, initializer) ==
    LET information == [initialize_fn |-> [init |-> initializer, adapter |-> "call"],
                        initialize_async_fn |-> None,
                        type_ |-> type_]
    IN [services |-> Insert(b.services, T, information),
        scoped_services |-> Insert(b.scoped_services, T, information)]

\* add_async_service::<T, I>(type_, initializer): the synchronous factory is
\* the initializer driven by block_on, the asynchronous one awaits it.
add_async_service(b, T, type_, initializer) ==
    LET information == [initialize_fn |-> [init |-> initializer, adapter |-> "block_on"],
                        initialize_async_fn |-> Some([init |-> initializer]),
                        type_ |-> type_]
    IN [services |-> Insert(b.services, T, information),
        scoped_services |-> Insert(b.scoped_services, T, information)]

add_singleton(b, T) == add_service(b, T, Singleton, DefaultInitializer(T))
add_scoped(b, T) == add_service(b, T, Scoped, DefaultInitializer(T))
add_transient(b, T) == add_service(b, T, Transient, DefaultInitializer(T))

\* One registration call of a composition root.
Register(b, c) ==
    CASE c.fn = "add_singleton" -> add_singleton(b, c.T)
      [] c.fn = "add_scoped" -> add_scoped(b, c.T)
      [] c.fn = "add_transient" -> add_transient(b, c.T)
      [] c.fn = "add_service" -> add_service(b, c.T, c.type_, c.init)
      [] c.fn = "add_async_service" -> add_async_service(b, c.T, c.type_, c.init)

RECURSIVE RegisterAll(_, _)
RegisterAll(b, cs) ==
    IF cs = <<>> THEN b ELSE RegisterAll(Register(b, Head(cs)), Tail(cs))

\* build(): the registries are frozen; the Singleton Cache is the new object o.
build(b, o) ==
    [service_info |-> b.services,
     scoped_service_info |-> b.scoped_services,
     singletons |-> o]

Sugar(f, T) == [fn |-> f, T |-> T]
Custom(f, T, type_, name, deps) ==
    [fn |-> f, T |-> T, type_ |-> type_, init |-> [name |-> name, deps |-> deps]]

\* The composition roots the model starts from.
Programs ==
    { \* the example: a scoped service over a singleton over a transient
      << Sugar("add_scoped", "A"), Sugar("add_singleton", "B"),
         Sugar("add_transient", "C") >>,
      \* a singleton over a scoped service over a singleton
      << Sugar("add_singleton", "A"), Sugar("add_scoped", "B"),
         Sugar("add_singleton", "C") >>,
      \* asynchronous factories over a synchronous singleton; C is registered twice
      << Sugar("add_transient", "C"), Sugar("add_singleton", "C"),
         Custom("add_async_service", "A", Singleton, "asyncA", <<"C">>),
         Custom("add_async_service", "B", Scoped, "asyncB", <<"C">>) >>,
      \* C is not registered, and B's factory requires it
      << Custom("add_async_service", "A", Transient, "asyncA", <<>>),
         Custom("add_service", "B", Scoped, "initB", <<"C">>) >>,
      \* a factory with two fields of one scoped type; C is not registered
      << Custom("add_service", "B", Scoped, "initB", <<>>),
         Custom("add_service", "A", Transient, "initA", <<"B", "B">>) >>,
      \* a dependency cycle: A requires B requires A
      << Custom("add_service", "A", Singleton, "cycleA", <<"B">>),
         Custom("add_service", "B", Scoped, "cycleB", <<"A">>) >> }

(* ------------------------------- state --------------------------------- *)
VARIABLES
    builder,        \* the ServiceCollectionBuilder: Some until build() consumes it
    registrations,  \* the registration calls made on the builder, in order
    collection,   \* the root ServiceCollection
    heap,         \* the cache objects (Arc<RwLock<HashMap>>), by object index
    scopes,       \* the ServiceScope objects created so far
    inst,         \* every instance a factory was started for, by instance id
    stack,        \* per thread: the resolver frames in progress, innermost last
    res,          \* per thread: its current or last top-level call and outcome
    calls         \* top-level calls made so far

vars == <<builder, registrations, collection, heap, scopes, inst, stack, res, calls>>

Root == 0
Handlers == {Root} \cup (1..Len(scopes))

Idle == [api |-> "none", h |-> Root, key |-> "", miss |-> FALSE, out |-> "idle", val |-> 0]

Init ==
    /\ \E p \in Programs : /\ registrations = p
                           /\ collection = build(RegisterAll(NewBuilder, p), 1)
    /\ builder = None
    /\ heap = <<EmptyMap>>
    /\ scopes = <<>>
    /\ inst = <<>>
    /\ stack = [t \in Threads |-> <<>>]
    /\ res = [t \in Threads |-> Idle]
    /\ calls = 0

(* ---------------------------- the resolvers ---------------------------- *)
\* What a resolver decides before any factory runs: the key is not
\* registered ("none"), a cache holds it ("hit"), or a factory must run
\* ("miss") and its result goes to `cache` (None: to no cache).
NoInit == [name |-> "", deps |-> <<>>]
NotFound == [out |-> "none", val |-> 0, init |-> NoInit, via |-> "", cache |-> None]
Hit(v) == [out |-> "hit", val |-> v, init |-> NoInit, via |-> "", cache |-> None]
Construct(init, via, cache) ==
    [out |-> "miss", val |-> 0, init |-> init, via |-> via, cache |-> cache]

\* (information.initialize_fn)(self)
CallInitializeFn(information, cache) ==
    Construct(information.initialize_fn.init,
              information.initialize_fn.adapter, cache)

\* match information.initialize_async_fn.as_ref() { Some(i) => i(self).await,
\*                                                   None => initialize_fn }
AwaitOrCall(information, cache) ==
    IF information.initialize_async_fn # None
    THEN Construct(information.initialize_async_fn[1].init, "await", cache)
    ELSE CallInitializeFn(information, cache)

\* Mutant: the lookup never finds the cached value.
CacheReadAlwaysMiss(o, type_id) == None

\* lock.read().get(type_id).cloned()
CacheRead(o, type_id) == Get(heap[o], type_id)

\* ServiceCollection::get_singleton
get_singleton(type_id) ==
    LET value == CacheRead(collection.singletons, type_id)
        information == Get(collection.service_info, type_id)
    IN IF value # None THEN Hit(value[1])
       ELSE IF information = None THEN NotFound
       ELSE CallInitializeFn(information[1], Some(collection.singletons))

\* Mutant: the container sends every lifetime through get_singleton.
Collection_get_service_always_cached(type_id) ==
    IF Get(collection.service_info, type_id) = None THEN NotFound
    ELSE get_singleton(type_id)

\* Mutant: the container refuses a scoped key, which only a scope resolves.
Collection_get_service_scoped_unsupported(type_id) ==
    LET info == Get(collection.service_info, type_id)
    IN IF info = None THEN NotFound
       ELSE IF info[1].type_ = Singleton THEN get_singleton(type_id)
       ELSE IF info[1].type_ = Scoped THEN NotFound
       ELSE CallInitializeFn(info[1], None)

\* <ServiceCollection as ServiceHandler>::get_service_by_type_id
Collection_get_service_by_type_id(type_id) ==
    LET info == Get(collection.service_info, type_id)
    IN IF info = None THEN NotFound
       ELSE IF info[1].type_ = Singleton THEN get_singleton(type_id)
       ELSE CallInitializeFn(info[1], None)

\* <ServiceCollection as ServiceHandlerAsync>::get_async_service_by_type_id
Collection_get_async_service_by_type_id(type_id) ==
    LET info == Get(collection.service_info, type_id)
    IN IF info = None THEN NotFound
       ELSE IF info[1].type_ = Singleton THEN get_singleton(type_id)
       ELSE AwaitOrCall(info[1], None)

\* The cache a scope reads for a lifetime (the first match on type_).
ScopeReadCache(s, type_) ==
    IF type_ = Singleton THEN scopes[s].singletons ELSE scopes[s].scoped

\* Mutant: the second match writes every lifetime to the Scope Cache.
ScopeWriteCacheAlwaysScoped(s, type_) == scopes[s].scoped

\* The cache a scope writes for a lifetime (the second match on type_).
ScopeWriteCache(s, type_) ==
    IF type_ = Singleton THEN scopes[s].singletons ELSE scopes[s].scoped

\* ServiceScope::get_service
Scope_get_service(s, type_id, type_) ==
    LET information == Get(scopes[s].services, type_id)
    IN IF type_ = Transient
       THEN IF information = None THEN NotFound
            ELSE CallInitializeFn(information[1], None)
       ELSE LET value == CacheRead(ScopeReadCache(s, type_), type_id)
            IN IF value # None THEN Hit(value[1])
               ELSE IF information = None THEN NotFound
               ELSE CallInitializeFn(information[1], Some(ScopeWriteCache(s, type_)))

\* ServiceScope::get_async_service
Scope_get_async_service(s, type_id, type_) ==
    LET information == Get(scopes[s].services, type_id)
    IN IF type_ = Transient
       THEN IF information = None THEN NotFound
            ELSE CallInitializeFn(information[1], None)
       ELSE LET value == CacheRead(ScopeReadCache(s, type_), type_id)
            IN IF value # None THEN Hit(value[1])
               ELSE IF information = None THEN NotFound
               ELSE AwaitOrCall(information[1], Some(ScopeWriteCache(s, type_)))

\* <ServiceScope as ServiceHandler>::get_service_by_type_id
Scope_get_service_by_type_id(s, type_id) ==
    LET information == Get(scopes[s].services, type_id)
    IN IF information # None
       THEN Scope_get_service(s, type_id, information[1].type_)
       ELSE NotFound

\* <ServiceScope as ServiceHandlerAsync>::get_async_service_by_type_id
Scope_get_async_service_by_type_id(s, type_id) ==
    LET information == Get(scopes[s].services, type_id)
    IN IF information # None
       THEN Scope_get_async_service(s, type_id, information[1].type_)
       ELSE NotFound

\* The resolver of handler h, on the synchronous or the asynchronous path.
Lookup(h, type_id, mode) ==
    IF h = Root
    THEN IF mode = "sync" THEN Collection_get_service_by_type_id(type_id)
         ELSE Collection_get_async_service_by_type_id(type_id)
    ELSE IF mode = "sync" THEN Scope_get_service_by_type_id(h, type_id)
         ELSE Scope_get_async_service_by_type_id(h, type_id)

(* ------------------------ instances and returns ------------------------ *)
\* The instance a factory invocation is building: its type is the T of the
\* registration whose closure runs, its fields are filled as they resolve.
NewInstance(type_id, init, h) ==
    [ty |-> type_id, init |-> init.name, deps |-> <<>>, status |-> "building",
     by |-> h, cnt |-> 0, hs |-> {}]

\* A handle to instance v goes out of a resolver of handler h.
Handed(in, v, h) ==
    [in EXCEPT ![v].cnt = @ + 1, ![v].hs = @ \cup {h}]

\* Unwinding drops the instances the frames of stk were building.
Dropped(in, stk) ==
    [v \in DOMAIN in |->
        IF \E j \in DOMAIN stk : stk[j].id = v
        THEN [in[v] EXCEPT !.status = "dropped"] ELSE in[v]]

\* Arc<dyn Any>::downcast::<T>().ok()
Downcast(in, opt, T) ==
    IF opt # None /\ in[opt[1]].ty = T THEN opt ELSE None

\* Mutant: the required entry points return the Option like the plain ones.
RequiredNever(api) == FALSE

\* get_required_service / get_required_async_service unwrap the Option.
Required(api) == api \in {"get_required_service", "get_required_async_service"}
Mode(api) == IF api \in {"get_service", "get_required_service"} THEN "sync" ELSE "async"

\* get_service::<T> / get_async_service::<T> and their required forms, at
\* the top level of a thread: the erased result opt becomes the outcome.
Outcome(op, in, opt) ==
    LET d == Downcast(in, opt, op.key)
    IN IF d # None
       THEN [stk |-> <<>>, res |-> [op EXCEPT !.out = "some", !.val = d[1]],
             inst |-> Handed(in, d[1], op.h)]
       ELSE [stk |-> <<>>,
             res |-> [op EXCEPT !.out = IF Required(op.api) THEN "panic" ELSE "none"],
             inst |-> in]

\* handler.get_required_service::<T>() inside the factory of the frame on
\* top of stk: the field is filled, or the unwrap panics and the thread
\* unwinds through every frame.
FieldResolved(stk, op, in, opt) ==
    LET f == stk[Len(stk)]
        d == Downcast(in, opt, f.init.deps[f.i])
    IN IF d # None
       THEN [stk |-> [stk EXCEPT ![Len(stk)].i = @ + 1],
             res |-> op,
             inst |-> Handed([in EXCEPT ![f.id].deps = Append(@, d[1])], d[1], f.h)]
       ELSE [stk |-> <<>>,
             res |-> [op EXCEPT !.out = "panic"],
             inst |-> Dropped(in, stk)]

\* A resolver returns opt to what is below it: the thread's top-level call
\* when stk is empty, the factory that asked otherwise.
Returned(stk, op, in, opt) ==
    IF stk = <<>> THEN Outcome(op, in, opt) ELSE FieldResolved(stk, op, in, opt)

\* Mutant: the read guard of the lookup lives to the end of the resolver.
GuardsAfterLookupKept(o) == {<<o, "read">>}

\* The lock guards of cache o still alive once the lookup has been
\* evaluated: the read guard is a temporary of the lookup, dropped with it.
GuardsAfterLookup(o) == {}

\* Mutant: the value under construction is put in the cache before the
\* factory runs.
OnMissPublish(hp, cache, type_id, v) ==
    [hp EXCEPT ![cache] = Insert(@, type_id, v)]

\* Between a cache miss and the factory's return nothing is written.
OnMiss(hp, cache, type_id, v) == hp

\* Mutant: a key whose factory is already running on the thread is not
\* resolved again.
EnteredWithVisitedSet(stk, op, h, type_id, mode) ==
    LET p == IF \E j \in DOMAIN stk : stk[j].key = type_id
             THEN NotFound ELSE Lookup(h, type_id, mode)
        v == Len(inst) + 1
        frame == [h |-> h, key |-> type_id, pc |-> "init", via |-> p.via,
                  cache |-> p.cache, init |-> p.init, id |-> v, i |-> 1,
                  locks |-> {}]
    IN CASE p.out = "none" -> Returned(stk, op, inst, None) @@ [heap |-> heap]
         [] p.out = "hit" -> Returned(stk, op, inst, Some(p.val)) @@ [heap |-> heap]
         [] p.out = "miss" ->
              [stk |-> Append(stk, frame),
               res |-> IF stk = <<>> THEN [op EXCEPT !.miss = TRUE] ELSE op,
               inst |-> Append(inst, NewInstance(type_id, p.init, h)),
               heap |-> heap]

\* The resolver of handler h is entered for type_id with the frames stk below;
\* res.miss records that a top-level call found no cached value.
Entered(stk, op, h, type_id, mode) ==
    LET p == Lookup(h, type_id, mode)
        v == Len(inst) + 1
        frame == [h |-> h, key |-> type_id, pc |-> "init", via |-> p.via,
                  cache |-> p.cache, init |-> p.init, id |-> v, i |-> 1,
                  locks |-> IF p.cache = None THEN {}
                            ELSE GuardsAfterLookup(p.cache[1])]
    IN CASE p.out = "none" -> Returned(stk, op, inst, None) @@ [heap |-> heap]
         [] p.out = "hit" -> Returned(stk, op, inst, Some(p.val)) @@ [heap |-> heap]
         [] p.out = "miss" ->
              [stk |-> Append(stk, frame),
               res |-> IF stk = <<>> THEN [op EXCEPT !.miss = TRUE] ELSE op,
               inst |-> Append(inst, NewInstance(type_id, p.init, h)),
               heap |-> IF p.cache = None THEN heap
                        ELSE OnMiss(heap, p.cache[1], type_id, v)]

\* A thread runs on by itself until its next access to shared state: an
\* initializer with every field resolved returns (a synchronous one) or
\* reaches its await (an asynchronous one); a value no cache takes goes
\* straight back to the factory that asked for it.
RECURSIVE Settle(_)
Settle(e) ==
    IF e.stk = <<>> THEN e
    ELSE LET n == Len(e.stk)
             f == e.stk[n]
             in == [e.inst EXCEPT ![f.id].status = "built"]
         IN IF f.pc = "init" /\ f.i > Len(f.init.deps)
            THEN IF f.via # "call"
                 THEN [e EXCEPT !.stk[n].pc = "suspended"]
                 ELSE IF f.cache = None
                 THEN Settle(Returned(SubSeq(e.stk, 1, n - 1), e.res, in, Some(f.id))
                             @@ [heap |-> e.heap])
                 ELSE [e EXCEPT !.stk[n].pc = "insert", !.inst = in]
            ELSE e

Apply(t, e) ==
    LET d == Settle(e)
    IN /\ stack' = [stack EXCEPT ![t] = d.stk]
       /\ res' = [res EXCEPT ![t] = d.res]
       /\ inst' = d.inst
       /\ heap' = d.heap

(* ------------------------------ actions -------------------------------- *)
Op(api, h, type_id) ==
    [api |-> api, h |-> h, key |-> type_id, miss |-> FALSE, out |-> "pending", val |-> 0]

\* A thread calls one of the four typed entry points on a handler.
Call(t, api, h, type_id, maxCalls) ==
    /\ stack[t] = <<>>
    /\ calls < maxCalls
    /\ calls' = calls + 1
    /\ Apply(t, Entered(<<>>, Op(api, h, type_id), h, type_id, Mode(api)))
    /\ UNCHANGED <<builder, registrations, collection, scopes>>

GetService(t, maxCalls) ==
    \E h \in Handlers, k \in TypeIds : Call(t, "get_service", h, k, maxCalls)

GetRequiredService(t, maxCalls) ==
    \E h \in Handlers, k \in TypeIds : Call(t, "get_required_service", h, k, maxCalls)

GetAsyncService(t, maxCalls) ==
    \E h \in Handlers, k \in TypeIds : Call(t, "get_async_service", h, k, maxCalls)

GetRequiredAsyncService(t, maxCalls) ==
    \E h \in Handlers, k \in TypeIds : Call(t, "get_required_async_service", h, k, maxCalls)

\* Mutant: the scope's Scope Cache is the handler's Singleton Cache object.
ServiceScope_create_shared_scoped(handler, o) ==
    [services |-> handler.scoped_service_info,
     singletons |-> handler.singletons,
     scoped |-> handler.singletons]

\* Mutant: the scope gets a Singleton Cache of its own.
ServiceScope_create_own_singletons(handler, o) ==
    [services |-> handler.scoped_service_info,
     singletons |-> o,
     scoped |-> o]

\* ServiceScope::create: the registry and the Singleton Cache are the
\* handler's own, the Scope Cache is the new object o.
ServiceScope_create(handler, o) ==
    [services |-> handler.scoped_service_info,
     singletons |-> handler.singletons,
     scoped |-> o]

\* ServiceCollection::create_scope
CreateScope(t, maxScopes) ==
    /\ stack[t] = <<>>
    /\ Len(scopes) < maxScopes
    /\ heap' = Append(heap, EmptyMap)
    /\ scopes' = Append(scopes, ServiceScope_create(collection, Len(heap) + 1))
    /\ res' = [res EXCEPT ![t] = [Op("create_scope", Root, "") EXCEPT
                                     !.out = "scope", !.val = Len(scopes) + 1]]
    /\ UNCHANGED <<builder, registrations, collection, inst, stack, calls>>

\* <ServiceScope as ServiceHandler>::create_scope: todo!()
ScopeCreateScope(t, maxCalls) ==
    \E s \in 1..Len(scopes) :
        /\ stack[t] = <<>>
        /\ calls < maxCalls
        /\ calls' = calls + 1
        /\ res' = [res EXCEPT ![t] = [Op("create_scope", s, "") EXCEPT !.out = "panic"]]
        /\ UNCHANGED <<builder, registrations, collection, heap, scopes, inst, stack>>

Top(t) == stack[t][Len(stack[t])]
Below(t) == SubSeq(stack[t], 1, Len(stack[t]) - 1)

\* The guards on cache o that the resolvers in progress hold.
Guards(o) ==
    UNION {UNION {{g \in stack[t][j].locks : g[1] = o} : j \in DOMAIN stack[t]}
           : t \in Threads}

\* RwLock::write returns once no guard on the lock is alive.
CanWrite(o) == Guards(o) = {}

\* A factory is at a field it has yet to resolve; a resolver that has to
\* run a factory for it needs room on the thread's stack.
InjectReady(t, h) ==
    /\ stack[t] # <<>>
    /\ Top(t).pc = "init"
    /\ Top(t).i <= Len(Top(t).init.deps)
    /\ Lookup(h, Top(t).init.deps[Top(t).i], "sync").out = "miss"
           => Len(stack[t]) < MaxDepth

\* Mutant: the factory resolves its fields on the root container, whatever
\* handler it was called with.
InjectOnRoot(t) ==
    /\ InjectReady(t, Root)
    /\ Apply(t, Entered(stack[t], res[t], Root, Top(t).init.deps[Top(t).i], "sync"))
    /\ UNCHANGED <<builder, registrations, collection, scopes, calls>>

\* The factory on top of the stack resolves its next field on its handler.
Inject(t) ==
    /\ InjectReady(t, Top(t).h)
    /\ Apply(t, Entered(stack[t], res[t], Top(t).h, Top(t).init.deps[Top(t).i], "sync"))
    /\ UNCHANGED <<builder, registrations, collection, scopes, calls>>

\* An initializer is at its await (or block_on is driving it there).
ResumeReady(t) ==
    /\ stack[t] # <<>>
    /\ Top(t).pc = "suspended"

\* The awaited work is done and the asynchronous initializer returns: to
\* the insert when a cache takes the value, to the caller otherwise.
Resume(t) ==
    /\ ResumeReady(t)
    /\ LET in == [inst EXCEPT ![Top(t).id].status = "built"]
       IN IF Top(t).cache = None
          THEN Apply(t, Returned(Below(t), res[t], in, Some(Top(t).id))
                        @@ [heap |-> heap])
          ELSE Apply(t, [stk |-> [stack[t] EXCEPT ![Len(stack[t])].pc = "insert"],
                         res |-> res[t], inst |-> in, heap |-> heap])
    /\ UNCHANGED <<builder, registrations, collection, scopes, calls>>

\* Mutant: the value is returned without being written to the cache.
CacheInsertSkipsWrite(t) ==
    /\ stack[t] # <<>>
    /\ Top(t).pc = "insert"
    /\ Apply(t, Returned(Below(t), res[t], inst, Some(Top(t).id)) @@ [heap |-> heap])
    /\ UNCHANGED <<builder, registrations, collection, scopes, calls>>

\* Mutant: the insert leaves the new entry alone in the cache.
CacheInsertReplacesMap(t) ==
    /\ stack[t] # <<>>
    /\ Top(t).pc = "insert"
    /\ Apply(t, Returned(Below(t), res[t], inst, Some(Top(t).id))
                @@ [heap |-> [heap EXCEPT ![Top(t).cache[1]] =
                                 Insert(EmptyMap, Top(t).key, Top(t).id)]])
    /\ UNCHANGED <<builder, registrations, collection, scopes, calls>>

\* The factory has returned and the write lock can be taken.
CacheInsertReady(t) ==
    /\ stack[t] # <<>>
    /\ Top(t).pc = "insert"
    /\ CanWrite(Top(t).cache[1])

\* lock.write().insert(type_id, value.clone()); Some(value)
CacheInsert(t) ==
    /\ CacheInsertReady(t)
    /\ Apply(t, Returned(Below(t), res[t], inst, Some(Top(t).id))
                @@ [heap |-> [heap EXCEPT ![Top(t).cache[1]] =
                                 Insert(@, Top(t).key, Top(t).id)]])
    /\ UNCHANGED <<builder, registrations, collection, scopes, calls>>

\* The task of an asynchronous call is dropped while its future is pending:
\* only a directly awaited initializer leaves the future pending.
Cancel(t) ==
    /\ Len(stack[t]) = 1
    /\ Top(t).pc = "suspended"
    /\ Top(t).via = "await"
    /\ Apply(t, [stk |-> <<>>, res |-> [res[t] EXCEPT !.out = "cancelled"],
                 inst |-> Dropped(inst, stack[t]), heap |-> heap])
    /\ UNCHANGED <<builder, registrations, collection, scopes, calls>>

Step(t, maxCalls, maxScopes) ==
    \/ GetService(t, maxCalls)
    \/ GetRequiredService(t, maxCalls)
    \/ GetAsyncService(t, maxCalls)
    \/ GetRequiredAsyncService(t, maxCalls)
    \/ CreateScope(t, maxScopes)
    \/ ScopeCreateScope(t, maxCalls)
    \/ Inject(t)
    \/ Resume(t)
    \/ CacheInsert(t)
    \/ Cancel(t)

Next == \E t \in Threads : Step(t, MaxCalls, MaxScopes)

Spec == Init /\ [][Next]_vars

(* ------------------------ the composition root ------------------------ *)
\* The initializers a composition root passes to add_service and
\* add_async_service.
Initializers == {[name |-> "initX", deps |-> <<>>], [name |-> "initY", deps |-> <<"C">>]}

\* No container exists before build().
Unbuilt == [service_info |-> EmptyMap, scoped_service_info |-> EmptyMap, singletons |-> 0]

\* ServiceCollectionBuilder::default()
InitBuild ==
    /\ builder = Some(NewBuilder)
    /\ registrations = <<>>
    /\ collection = Unbuilt
    /\ heap = <<>>
    /\ scopes = <<>>
    /\ inst = <<>>
    /\ stack = [t \in Threads |-> <<>>]
    /\ res = [t \in Threads |-> Idle]
    /\ calls = 0

\* One registration call c on the builder, which is moved through the call.
Add(c) ==
    /\ builder # None
    /\ Len(registrations) < MaxRegistrations
    /\ builder' = Some(Register(builder[1], c))
    /\ registrations' = Append(registrations, c)
    /\ UNCHANGED <<collection, heap, scopes, inst, stack, res, calls>>

AddSingleton == \E T \in TypeIds : Add(Sugar("add_singleton", T))
AddScoped == \E T \in TypeIds : Add(Sugar("add_scoped", T))
AddTransient == \E T \in TypeIds : Add(Sugar("add_transient", T))

AddService ==
    \E T \in TypeIds, type_ \in ServiceType, i \in Initializers :
        Add(Custom("add_service", T, type_, i.name, i.deps))

AddAsyncService ==
    \E T \in TypeIds, type_ \in ServiceType, i \in Initializers :
        Add(Custom("add_async_service", T, type_, i.name, i.deps))

\* build() consumes the builder and allocates the Singleton Cache.
Build ==
    /\ builder # None
    /\ collection' = build(builder[1], Len(heap) + 1)
    /\ heap' = Append(heap, EmptyMap)
    /\ builder' = None
    /\ UNCHANGED <<registrations, scopes, inst, stack, res, calls>>

NextBuild ==
    \/ AddSingleton
    \/ AddScoped
    \/ AddTransient
    \/ AddService
    \/ AddAsyncService
    \/ Build

SpecBuild == InitBuild /\ [][NextBuild]_vars

\* Non-overlapping calls: one thread makes them all.
NextSeq == Step(1, SeqCalls, SeqScopes)

SpecSeq == Init /\ [][NextSeq]_vars

(* ------------------------------ claims --------------------------------- *)
Instances == DOMAIN inst
TypeOf(type_id) == collection.service_info[type_id].type_
Registered == DOMAIN collection.service_info
KeysOf(type_) == {k \in Registered : TypeOf(k) = type_}
Min(S) == CHOOSE x \in S : \A y \in S : x <= y
Cached == UNION {{heap[o][k] : k \in DOMAIN heap[o]} : o \in DOMAIN heap}
CachedIn(o) == {heap[o][k] : k \in DOMAIN heap[o]}
ScopeIds == 1..Len(scopes)

\* C1: in non-overlapping resolutions, every handle to a singleton-registered
\* key S, from the container or from any scope, references one instance: the
\* first one a factory of S constructed (abandoned constructions aside).
C1_SingletonIdentity ==
    \A v \in Instances :
        (inst[v].ty \in KeysOf(Singleton) /\ inst[v].cnt > 0) =>
            v = Min({u \in Instances : inst[u].ty = inst[v].ty
                                       /\ inst[u].status # "dropped"})

\* C1 witness: one singleton instance was handed out by the container and by
\* a scope, more than once.
C1_Witness ==
    \E v \in Instances :
        /\ inst[v].ty \in KeysOf(Singleton)
        /\ inst[v].cnt >= 2
        /\ Root \in inst[v].hs
        /\ \E s \in ScopeIds : s \in inst[v].hs

\* C2: in non-overlapping resolutions of a scoped-registered key T, one scope
\* always hands out the same instance, and no instance is handed out by two
\* different scopes.
C2_ScopedIdentity ==
    \A v \in Instances :
        inst[v].ty \in KeysOf(Scoped) =>
            /\ Cardinality(inst[v].hs \cap ScopeIds) <= 1
            /\ \A w \in Instances :
                 (inst[w].ty = inst[v].ty /\ inst[v].hs \cap inst[w].hs \cap ScopeIds # {})
                     => w = v

\* C2 witness: a scoped key was resolved twice on one scope and once on
\* another scope.
C2_Witness ==
    \E v, w \in Instances :
        /\ v # w
        /\ inst[v].ty \in KeysOf(Scoped)
        /\ inst[w].ty = inst[v].ty
        /\ inst[v].cnt >= 2
        /\ inst[v].hs = {1}
        /\ inst[w].hs = {2}

\* C3: when every thread has returned from a resolution of the same
\* singleton key that found no cached value, every returned handle references
\* the one instance the Singleton Cache holds for the key.
C3_ConcurrentFirstResolution ==
    \A S \in KeysOf(Singleton) :
        (\A t \in Threads : /\ stack[t] = <<>>
                            /\ res[t].key = S
                            /\ res[t].miss
                            /\ res[t].out = "some")
        => /\ S \in DOMAIN heap[collection.singletons]
           /\ \A t \in Threads : res[t].val = heap[collection.singletons][S]

\* C4: every resolution of a transient-registered key, on any handler and on
\* either path, returns an instance no other resolution returned: no instance
\* of a transient key is handed out twice.
C4_TransientFresh ==
    \A v \in Instances :
        inst[v].ty \in KeysOf(Transient) => inst[v].cnt <= 1

\* C4 witness: one handler handed out two instances of a transient key.
C4_Witness ==
    \E v, w \in Instances :
        /\ v # w
        /\ inst[v].ty \in KeysOf(Transient)
        /\ inst[w].ty = inst[v].ty
        /\ inst[v].cnt = 1 /\ inst[w].cnt = 1
        /\ inst[v].hs = inst[w].hs

\* C5: the Singleton Cache holds only singleton-registered keys and every
\* Scope Cache only scoped-registered keys; a transient key is in neither.
C5_CacheKeysMatchLifetime ==
    /\ \A k \in DOMAIN heap[collection.singletons] :
           k \in KeysOf(Singleton)
    /\ \A s \in ScopeIds : \A k \in DOMAIN heap[scopes[s].scoped] :
           k \in KeysOf(Scoped)

\* C5 witness: both tiers hold an entry and a transient instance was handed out.
C5_Witness ==
    /\ heap[collection.singletons] # EmptyMap
    /\ \E s \in ScopeIds : heap[scopes[s].scoped] # EmptyMap
    /\ \E v \in Instances : inst[v].ty \in KeysOf(Transient) /\ inst[v].cnt = 1

\* The keys registered with handler h.
RegistryKeys(h) ==
    IF h = Root THEN DOMAIN collection.service_info ELSE DOMAIN scopes[h].services

NotRegistered(op) ==
    /\ op.api \in {"get_service", "get_required_service"}
    /\ op.key \notin RegistryKeys(op.h)

C6_Outcome ==
    \A t \in Threads :
        NotRegistered(res[t]) =>
            /\ stack[t] = <<>>
            /\ ~res[t].miss
            /\ res[t].out = IF res[t].api = "get_service" THEN "none" ELSE "panic"
            /\ \A v \in Instances : inst[v].ty # res[t].key

C6_Frame ==
    (stack[1] = <<>> /\ calls' = calls + 1 /\ NotRegistered(res'[1]))
        => (heap' = heap /\ inst' = inst /\ stack' = stack)

\* C6: get_service for a key with no registration, on the container or on a
\* scope, returns an empty result, starts no factory and leaves every cache as
\* it was; get_required_service for that key panics.
C6_NotRegistered == [](C6_Outcome) /\ [][C6_Frame]_vars

\* C6 witness: with a cache entry in place, a scope returned an empty result
\* for a key it has no registration of.
C6_Witness ==
    /\ NotRegistered(res[1])
    /\ res[1].h # Root
    /\ res[1].out = "none"
    /\ Cached # {}

C7_Shares ==
    \A s \in ScopeIds :
        /\ scopes[s].singletons = collection.singletons
        /\ DOMAIN scopes[s].services = DOMAIN collection.service_info
        /\ \A k \in DOMAIN scopes[s].services :
               scopes[s].services[k].type_ = collection.service_info[k].type_
        /\ scopes[s].scoped # collection.singletons
        /\ \A r \in ScopeIds : r # s => scopes[r].scoped # scopes[s].scoped
        /\ \A k \in TypeIds :
               CacheRead(scopes[s].singletons, k) = CacheRead(collection.singletons, k)

C7_Fresh ==
    Len(scopes') = Len(scopes) + 1 =>
        /\ scopes'[Len(scopes')].scoped \notin DOMAIN heap
        /\ heap'[scopes'[Len(scopes')].scoped] = EmptyMap

\* C7: a scope created from the container starts with an empty Scope Cache of
\* its own, has the container's keys and lifetimes, and reads and writes the
\* container's own Singleton Cache object, as every other scope does.
C7_CreateScope == [](C7_Shares) /\ [][C7_Fresh]_vars

\* C7 witness: with two scopes open, a singleton built and inserted through
\* one of them was a hit on the container or on the other scope.
C7_Witness ==
    \E v \in Instances : \E s, r \in ScopeIds :
        /\ s # r
        /\ inst[v].ty \in KeysOf(Singleton)
        /\ inst[v].by = s
        /\ v \in CachedIn(collection.singletons)
        /\ inst[v].hs \cap {Root, r} # {}

\* C8: create_scope() on a scope returns normally, with that same scope.
C8_ScopeCreateScopeReturnsSelf ==
    \A t \in Threads :
        (res[t].api = "create_scope" /\ res[t].h # Root) =>
            (res[t].out = "scope" /\ res[t].val = res[t].h)

\* C9: every instance a cache holds, and every instance handed out, is one
\* whose factory has returned: none is still under construction.
C9_OnlyBuiltPublished ==
    /\ \A v \in Cached : inst[v].status = "built"
    /\ \A v \in Instances : inst[v].cnt > 0 => inst[v].status = "built"

\* C9 witness: a factory of a cached lifetime is suspended with a field
\* already resolved from a cache, and its own key is in no cache.
C9_Witness ==
    \E t \in Threads :
        /\ stack[t] # <<>>
        /\ stack[t][1].pc = "suspended"
        /\ stack[t][1].cache # None
        /\ inst[stack[t][1].id].status = "building"
        /\ inst[stack[t][1].id].deps # <<>>
        /\ inst[stack[t][1].id].deps[1] \in Cached
        /\ stack[t][1].key \notin DOMAIN heap[stack[t][1].cache[1]]

C10_Cancelled ==
    \A t \in Threads :
        (res[t].out = "pending" /\ res'[t].out = "cancelled") =>
            /\ heap' = heap
            /\ stack'[t] = <<>>
            /\ stack[t][1].id \notin Cached'
            /\ inst'[stack[t][1].id].status = "dropped"

C10_Abandoned ==
    \A v \in Instances :
        inst[v].status = "dropped" => (v \notin Cached /\ inst[v].cnt = 0)

C10_Restart ==
    \A t \in Threads :
        (stack[t] = <<>> /\ stack'[t] # <<>>) =>
            /\ stack'[t][1].id = Len(inst) + 1
            /\ stack'[t][1].i = 1
            /\ inst'[stack'[t][1].id].deps = <<>>

\* C10: cancelling an asynchronous resolution suspended in its factory writes
\* no cache, the abandoned instance is never cached or handed out, and a
\* resolution that misses afterwards starts a new construction.
C10_Cancellation ==
    [](C10_Abandoned) /\ [][C10_Cancelled /\ C10_Restart]_vars

\* C10 witness: a resolution of a cached lifetime on a scope was cancelled,
\* and a later construction of the same key on that scope is in the cache.
C10_Witness ==
    \E t \in Threads : \E v, w \in Instances :
        /\ res[t].out = "cancelled"
        /\ inst[v].ty = res[t].key
        /\ inst[v].status = "dropped"
        /\ inst[v].ty \in KeysOf(Singleton) \cup KeysOf(Scoped)
        /\ inst[w].ty = inst[v].ty
        /\ inst[w].by = inst[v].by
        /\ inst[v].by # Root
        /\ v < w
        /\ w \in Cached

\* The registration handler h resolves key k with.
InfoOf(h, k) ==
    IF h = Root THEN collection.service_info[k] ELSE scopes[h].services[k]

AsyncApis == {"get_async_service", "get_required_async_service"}

\* C11: whenever an asynchronous resolution, on the container or on a scope,
\* constructs a key of any lifetime that has an asynchronous factory, the
\* factory that runs is that one, awaited, never the block_on adapter.
C11_AsyncAwaitsFactory ==
    \A t \in Threads :
        (/\ stack[t] # <<>>
         /\ res[t].api \in AsyncApis
         /\ InfoOf(res[t].h, res[t].key).initialize_async_fn # None)
        => stack[t][1].via = "await"

\* C12: get_async_service and get_required_async_service, called for a key
\* without registration, hand a failure value back to the caller: neither
\* ever panics.
C12_AsyncNeverFaults ==
    \A t \in Threads :
        (/\ res[t].api \in AsyncApis
         /\ res[t].key \notin RegistryKeys(res[t].h))
        => res[t].out # "panic"

\* What the registration call c asks for.
LifetimeOf(c) ==
    CASE c.fn = "add_singleton" -> Singleton
      [] c.fn = "add_scoped" -> Scoped
      [] c.fn = "add_transient" -> Transient
      [] OTHER -> c.type_

InitializerOf(c) ==
    IF c.fn \in {"add_singleton", "add_scoped", "add_transient"}
    THEN [name |-> "DefaultInitializer", deps |-> InjectFields[c.T]]
    ELSE c.init

IsAsync(c) == c.fn = "add_async_service"

\* The last registration call made for key k.
LastFor(k) ==
    LET I == {i \in DOMAIN registrations : registrations[i].T = k}
    IN registrations[CHOOSE i \in I : \A j \in I : j <= i]

\* The entry info is the one call c asks for, and carries nothing else.
IsRegistrationOf(info, c) ==
    /\ info.type_ = LifetimeOf(c)
    /\ info.initialize_fn.init = InitializerOf(c)
    /\ info.initialize_fn.adapter = (IF IsAsync(c) THEN "block_on" ELSE "call")
    /\ info.initialize_async_fn =
           (IF IsAsync(c) THEN Some([init |-> InitializerOf(c)]) ELSE None)

LastWins(services, scoped_services) ==
    /\ DOMAIN services = {registrations[i].T : i \in DOMAIN registrations}
    /\ DOMAIN scoped_services = DOMAIN services
    /\ \A k \in DOMAIN services :
         /\ IsRegistrationOf(services[k], LastFor(k))
         /\ IsRegistrationOf(scoped_services[k], LastFor(k))
         /\ scoped_services[k].type_ = services[k].type_

\* C13: after any sequence of registration calls, and after build(), the
\* container's registry and the scope registry hold exactly the keys that were
\* registered, each with the lifetime and the factories of the last call made
\* for it; nothing of an earlier call for the key, its asynchronous factory
\* included, is left.
C13_LastRegistrationWins ==
    IF builder # None
    THEN LastWins(builder[1].services, builder[1].scoped_services)
    ELSE LastWins(collection.service_info, collection.scoped_service_info)

\* C13 witness: a container was built after a key was registered with an
\* asynchronous factory and then again, synchronously, with another lifetime.
C13_Witness ==
    /\ builder = None
    /\ \E i, j \in DOMAIN registrations :
         /\ i < j
         /\ registrations[i].T = registrations[j].T
         /\ IsAsync(registrations[i])
         /\ ~IsAsync(registrations[j])
         /\ LifetimeOf(registrations[i]) # LifetimeOf(registrations[j])

GetApis == {"get_service", "get_required_service"} \cup AsyncApis

\* The keys the factory handler h runs for key k asks for.
DepsOf(h, k) ==
    IF k \in RegistryKeys(h)
    THEN {InfoOf(h, k).initialize_fn.init.deps[i] :
              i \in DOMAIN InfoOf(h, k).initialize_fn.init.deps}
    ELSE {}

RECURSIVE Closure(_, _, _)
Closure(h, K, n) ==
    IF n = 0 THEN K ELSE Closure(h, K \cup UNION {DepsOf(h, k) : k \in K}, n - 1)

\* The keys a resolution of k on h comes to ask for, directly or nested.
Requires(h, k) == Closure(h, DepsOf(h, k), Cardinality(TypeIds))

OnCycle(h, k) == k \in Requires(h, k)
Acyclic(h) == \A k \in RegistryKeys(h) : ~OnCycle(h, k)

\* Every key a resolution of k on h asks for is registered, and none is on a cycle.
Resolvable(h, k) ==
    /\ ({k} \cup Requires(h, k)) \subseteq RegistryKeys(h)
    /\ \A d \in {k} \cup Requires(h, k) : ~OnCycle(h, d)

\* The cache entry a resolution of k on h would hit, if any.
CacheOf(h, k) ==
    IF k \notin RegistryKeys(h) \/ InfoOf(h, k).type_ = Transient THEN None
    ELSE IF InfoOf(h, k).type_ = Singleton THEN Some(collection.singletons)
    ELSE IF h = Root THEN None
    ELSE Some(scopes[h].scoped)

IsCached(h, k) == CacheOf(h, k) # None /\ k \in DOMAIN heap[CacheOf(h, k)[1]]

\* A thread in a resolution can take its next step.
CanContinue(t) ==
    \/ InjectReady(t, Top(t).h)
    \/ ResumeReady(t)
    \/ CacheInsertReady(t)

\* Factories nest on one context, each for the next field of the one below,
\* and none returns while one above it is running.
C14_Nested ==
    \A j \in DOMAIN stack[1] :
        j > 1 =>
            /\ stack[1][j].h = stack[1][j - 1].h
            /\ stack[1][j].key = stack[1][j - 1].init.deps[stack[1][j - 1].i]
            /\ stack[1][j].id > stack[1][j - 1].id
            /\ inst[stack[1][j - 1].id].status = "building"

\* A completed instance has every field filled with a completed instance of
\* the field's type: one constructed after it on its own context, or one a
\* cache already held.
C14_LeavesFirst ==
    \A v \in Instances :
        inst[v].status = "built" =>
            LET deps == InfoOf(inst[v].by, inst[v].ty).initialize_fn.init.deps
            IN /\ Len(inst[v].deps) = Len(deps)
               /\ \A i \in DOMAIN deps :
                    LET d == inst[v].deps[i]
                    IN /\ inst[d].ty = deps[i]
                       /\ inst[d].status = "built"
                       /\ d > v => inst[d].by = inst[v].by
                       /\ d < v => d \in Cached

\* A resolution over an acyclic, fully registered chain can always go on,
\* and when it has returned it has returned a completed instance.
C14_Completes ==
    /\ (stack[1] # <<>> /\ Acyclic(stack[1][1].h)) => CanContinue(1)
    /\ (/\ stack[1] = <<>>
        /\ res[1].api \in GetApis
        /\ Resolvable(res[1].h, res[1].key)
        /\ res[1].out # "cancelled")
       => (res[1].out = "some" /\ inst[res[1].val].status = "built")

\* A field whose key is cached is filled with the cached instance, and no
\* factory is started for it.
C14_Reuse ==
    (/\ stack[1] # <<>>
     /\ Top(1).pc = "init"
     /\ Top(1).i <= Len(Top(1).init.deps)
     /\ IsCached(Top(1).h, Top(1).init.deps[Top(1).i]))
    => LET k == Top(1).init.deps[Top(1).i]
       IN /\ Len(inst') = Len(inst)
          /\ inst'[Top(1).id].deps =
                 Append(inst[Top(1).id].deps, heap[CacheOf(Top(1).h, k)[1]][k])

\* C14: a chain A -> B -> C resolved on one context completes; its factories
\* run nested, depth-first, on that context, C completing before B and B before
\* A; a dependency that is cached is reused and its factory not invoked.
C14_DepthFirst ==
    [](C14_Nested /\ C14_LeavesFirst /\ C14_Completes) /\ [][C14_Reuse]_vars

\* C14 witness: one A was completed over a B and a C constructed for it,
\* nested, on a scope with empty caches; another A on another scope was
\* completed over the cached B.
C14_Witness ==
    \E v, w \in Instances :
        /\ inst[v].ty = "A" /\ inst[v].status = "built" /\ inst[v].by # Root
        /\ inst[v].deps # <<>>
        /\ inst[v].deps[1] > v
        /\ inst[inst[v].deps[1]].ty = "B"
        /\ inst[inst[v].deps[1]].deps # <<>>
        /\ inst[inst[v].deps[1]].deps[1] > inst[v].deps[1]
        /\ inst[inst[inst[v].deps[1]].deps[1]].ty = "C"
        /\ inst[w].ty = "A" /\ inst[w].status = "built" /\ inst[w].by # inst[v].by
        /\ inst[w].deps = <<inst[v].deps[1]>>

\* The factory invocations for key k made with handler h as the context.
Invocations(k, h) == {v \in Instances : inst[v].ty = k /\ inst[v].by = h}
Completed(V) == {v \in V : inst[v].status = "built"}
HandedOut(k, h) == \E v \in Instances : inst[v].ty = k /\ h \in inst[v].hs

\* C15 as stated: after any sequence of non-overlapping resolutions the
\* factory of a scoped key has been invoked exactly once in each scope that
\* resolved it, and the factory of a singleton key exactly once in the
\* container, whichever handlers resolved it.
C15_InvokedOnce ==
    stack[1] = <<>> =>
        /\ \A k \in KeysOf(Scoped) : \A s \in ScopeIds :
               HandedOut(k, s) => Cardinality(Invocations(k, s)) = 1
        /\ \A k \in KeysOf(Singleton) :
               (\E h \in Handlers : HandedOut(k, h)) =>
                   Cardinality(UNION {Invocations(k, h) : h \in Handlers}) = 1

\* C15 amended: in non-overlapping resolutions the factory of a scoped key
\* runs to completion at most once per scope, and exactly once in a scope that
\* returned the key; the factory of a singleton key runs to completion at
\* most once per container, and exactly once when any handler returned the
\* key.  Invocations that were abandoned or never return are not counted.
C15_CompletedOnce ==
    /\ \A k \in KeysOf(Scoped) : \A s \in ScopeIds :
           /\ Cardinality(Completed(Invocations(k, s))) <= 1
           /\ HandedOut(k, s) => Cardinality(Completed(Invocations(k, s))) = 1
    /\ \A k \in KeysOf(Singleton) :
           LET all == UNION {Invocations(k, h) : h \in Handlers}
           IN /\ Cardinality(Completed(all)) <= 1
              /\ (\E h \in Handlers : HandedOut(k, h)) => Cardinality(Completed(all)) = 1

\* C15 witness: two scopes each completed their own instance of a scoped
\* key, both over the one instance of a singleton key.
C15_Witness ==
    /\ \E v, w, u \in Instances :
         /\ inst[v].ty \in KeysOf(Scoped) /\ inst[w].ty = inst[v].ty
         /\ inst[v].status = "built" /\ inst[w].status = "built"
         /\ inst[v].by \in ScopeIds /\ inst[w].by \in ScopeIds
         /\ inst[v].by # inst[w].by
         /\ inst[u].ty \in KeysOf(Singleton)
         /\ inst[v].deps = <<u>> /\ inst[w].deps = <<u>>

\* C15 witness of the amendment: an abandoned invocation for a cached
\* lifetime was followed by one that completed.
C15_Retried ==
    \E v, w \in Instances :
        /\ inst[v].status = "dropped"
        /\ inst[w].status = "built"
        /\ inst[w].ty = inst[v].ty
        /\ inst[w].by = inst[v].by
        /\ inst[v].ty \in KeysOf(Scoped) \cup KeysOf(Singleton)
        /\ inst[w].cnt > 0

\* Some resolver that missed on key k of cache o has yet to insert.
InFlight(o, k) ==
    \E t \in Threads : \E j \in DOMAIN stack[t] :
        stack[t][j].cache = Some(o) /\ stack[t][j].key = k

\* Every resolver that missed inserts the instance of its own factory call,
\* over whatever the cache holds by then.
C16_EveryoneInserts ==
    \A t \in Threads :
        (stack[t] # <<>> /\ Top(t).pc = "insert" /\ stack'[t] # stack[t])
        => heap'[Top(t).cache[1]][Top(t).key] = Top(t).id

\* Once no resolver that missed on a cached key is left, the entry stays as
\* it is and no resolver misses on it again.
C16_Settled ==
    \A o \in DOMAIN heap : \A k \in DOMAIN heap[o] :
        ~InFlight(o, k) => (heap'[o][k] = heap[o][k] /\ ~InFlight(o, k)')

\* C16: resolvers that race on the first access to a singleton key, or to a
\* scoped key of one scope, may each miss and each run the factory; each of
\* them inserts its own instance, so the entry is that of the last insert, and
\* no resolution started after the last of them has inserted replaces it.
C16_LastInsertWins == [][C16_EveryoneInserts /\ C16_Settled]_vars

\* C16 witness: two threads missed on one scoped key of one scope and each
\* ran the factory; the cache holds the instance inserted last, and a field
\* resolved after that insert was filled with it.
C16_Witness ==
    \E t \in Threads : \E a \in Instances :
        /\ res[t].out = "some" /\ res[t].miss
        /\ inst[a].status = "built" /\ Len(inst[a].deps) = 2
        /\ inst[inst[a].deps[1]].ty = res[t].key
        /\ inst[inst[a].deps[2]].ty = res[t].key
        /\ inst[a].deps[1] # res[t].val
        /\ inst[inst[a].deps[1]].by = res[t].h
        /\ IsCached(res[t].h, res[t].key)
        /\ heap[CacheOf(res[t].h, res[t].key)[1]][res[t].key] = inst[a].deps[2]
        /\ inst[a].deps[2] \in {inst[a].deps[1], res[t].val}

\* The handler thread 1 is resolving on in a step, if the step is part of a
\* resolution.
Resolving ==
    IF stack[1] # <<>> THEN {stack[1][1].h}
    ELSE IF res'[1].api \in GetApis THEN {res'[1].h}
    ELSE {}

\* A step of a resolution on one handler changes the Scope Cache of no other
\* scope.
C17_Frame ==
    \A Y \in ScopeIds \ Resolving :
        heap'[scopes[Y].scoped] = heap[scopes[Y].scoped]

\* What a Scope Cache holds was constructed on its scope and was handed out
\* by no other handler.
C17_Private ==
    \A X \in ScopeIds : \A v \in CachedIn(scopes[X].scoped) :
        /\ inst[v].by = X
        /\ inst[v].hs \subseteq {X}

\* C17: a synchronous or asynchronous resolution on scope X leaves the Scope
\* Cache of every other scope Y as it was, and an instance in X's Scope Cache
\* is never returned by a resolution on Y.
C17_ScopeIsolation == [](C17_Private) /\ [][C17_Frame]_vars

\* C17 witness: two scopes resolved the same scoped key, one after the other,
\* and each Scope Cache holds the instance its own scope returned.
C17_Witness ==
    \E X, Y \in ScopeIds : \E k \in TypeIds :
        /\ X # Y
        /\ k \in DOMAIN heap[scopes[X].scoped]
        /\ k \in DOMAIN heap[scopes[Y].scoped]
        /\ heap[scopes[X].scoped][k] # heap[scopes[Y].scoped][k]
        /\ inst[heap[scopes[X].scoped][k]].hs = {X}
        /\ inst[heap[scopes[Y].scoped][k]].hs = {Y}

\* Thread t is in a resolution of a key that is on a dependency cycle.
InCycle(t) ==
    /\ res[t].api \in GetApis
    /\ OnCycle(res[t].h, res[t].key)

\* A resolution of a key on a cycle has not returned: every factory it
\* started is still at its first field, and no key on a cycle is in a cache.
C18_NeverReturns ==
    /\ \A t \in Threads :
         InCycle(t) =>
             /\ res[t].out = "pending"
             /\ stack[t] # <<>>
             /\ \A j \in DOMAIN stack[t] :
                  /\ stack[t][j].pc = "init"
                  /\ stack[t][j].i = 1
                  /\ inst[stack[t][j].id].status = "building"
             /\ Len(stack[t]) < MaxDepth => InjectReady(t, Top(t).h)
    /\ \A h \in Handlers : \A k \in RegistryKeys(h) :
         OnCycle(h, k) => ~IsCached(h, k)

\* Every step of such a resolution is a nested resolve that misses: it adds
\* a frame, for the key the factory below it requires.
C18_Deeper ==
    \A t \in Threads :
        (InCycle(t) /\ stack[t] # <<>> /\ stack'[t] # stack[t])
        => /\ Len(stack'[t]) = Len(stack[t]) + 1
           /\ SubSeq(stack'[t], 1, Len(stack[t])) = stack[t]
           /\ stack'[t][Len(stack'[t])].key = Top(t).init.deps[1]

\* C18: with A requiring B and B requiring A, a resolution of A never
\* returns: nothing detects the repetition, each nested resolve misses
\* because nothing is cached before a factory returns, and each step nests
\* one frame deeper for as long as the stack has room.
C18_CycleRecursesForever == [](C18_NeverReturns) /\ [][C18_Deeper]_vars

\* C18 witness: the stack is full of frames of one resolution, the same key
\* under construction several times over, with every cache empty.
C18_Witness ==
    /\ InCycle(1)
    /\ Len(stack[1]) = MaxDepth
    /\ stack[1][3].key = stack[1][1].key
    /\ stack[1][3].id # stack[1][1].id
    /\ Cached = {}

\* An upper bound on the steps a resolution of k on h takes, whatever the
\* caches hold: the lookup, and for a registered key the resolutions of its
\* fields, the end of the awaited work and the insert.
RECURSIVE StepsFor(_, _, _)
StepsFor(h, k, fuel) ==
    IF k \notin RegistryKeys(h) \/ fuel = 0 THEN 1
    ELSE LET deps == InfoOf(h, k).initialize_fn.init.deps
             RECURSIVE Sum(_)
             Sum(i) == IF i > Len(deps) THEN 0
                       ELSE StepsFor(h, deps[i], fuel - 1) + Sum(i + 1)
         IN 3 + Sum(1)

\* The steps frame j of thread t still has to take by itself: its fields
\* from the first one no frame above it is serving, and its own return.
FrameSteps(t, j) ==
    LET f == stack[t][j]
        from == IF j < Len(stack[t]) THEN f.i + 1 ELSE f.i
        RECURSIVE Sum(_)
        Sum(i) == IF i > Len(f.init.deps) THEN 0
                  ELSE StepsFor(f.h, f.init.deps[i], Cardinality(TypeIds)) + Sum(i + 1)
    IN Sum(from) + (IF f.pc = "insert" THEN 1 ELSE 2)

RECURSIVE RemainingFrom(_, _)
RemainingFrom(t, j) ==
    IF j > Len(stack[t]) THEN 0 ELSE FrameSteps(t, j) + RemainingFrom(t, j + 1)

\* The steps the resolution of thread t has left, at most.
Remaining(t) == RemainingFrom(t, 1)

\* No guard of a cache lock is alive in any resolver that is running a
\* factory or waiting to insert.
C19_NoGuardHeld ==
    \A t \in Threads : \A j \in DOMAIN stack[t] : stack[t][j].locks = {}

\* Over an acyclic registry a thread in a resolution can always take its
\* next step, whatever the other threads are doing.
C19_NoDeadlock ==
    \A t \in Threads :
        (stack[t] # <<>> /\ Acyclic(stack[t][1].h)) => CanContinue(t)

\* Every step a thread takes in a resolution over an acyclic registry
\* brings the resolution nearer to its end.
C19_Progress ==
    \A t \in Threads :
        (stack[t] # <<>> /\ Acyclic(stack[t][1].h) /\ stack'[t] # stack[t])
        => Remaining(t)' < Remaining(t)

\* C19: no cache lock is held while a factory runs, so a factory that
\* resolves singleton or scoped dependencies through its own context is never
\* blocked on a cache lock, by itself or by another thread, and concurrent
\* resolutions over an acyclic registry all come to their end.
C19_NoLockAcrossFactory ==
    [](C19_NoGuardHeld /\ C19_NoDeadlock) /\ [][C19_Progress]_vars

\* C19 witness: a thread is about to insert into a cache for which a factory
\* lower on its own stack missed, while another thread is running a factory
\* that missed on the same cache.
C19_Witness ==
    \E t, u \in Threads :
        /\ t # u
        /\ Len(stack[t]) >= 2
        /\ Top(t).pc = "insert"
        /\ \E j \in 1..(Len(stack[t]) - 1) : stack[t][j].cache = Top(t).cache
        /\ \E j \in DOMAIN stack[u] :
             stack[u][j].cache = Top(t).cache /\ stack[u][j].pc # "insert"

\* An instance of a scoped key constructed with the container as context is
\* returned once, by the container, and is in no cache.
C20_Fresh ==
    \A v \in Instances :
        (inst[v].ty \in KeysOf(Scoped) /\ inst[v].by = Root) =>
            /\ inst[v].cnt <= 1
            /\ inst[v].hs \subseteq {Root}
            /\ v \notin Cached

\* Every call for a scoped key on the container runs the factory, and when
\* it has returned it has returned the instance that run constructed.
C20_EveryCall ==
    (res[1].api \in GetApis /\ res[1].h = Root /\ res[1].key \in KeysOf(Scoped)) =>
        /\ res[1].miss
        /\ (/\ stack[1] = <<>>
            /\ Resolvable(Root, res[1].key)
            /\ res[1].out # "cancelled")
           => /\ res[1].out = "some"
              /\ inst[res[1].val].by = Root
              /\ inst[res[1].val].cnt = 1
              /\ \A w \in Instances : w > res[1].val => inst[w].ty # res[1].key

\* A factory running with the container as context gets a scoped field from
\* a new run of the field's factory, which will write to no cache.
C20_Nested ==
    (/\ stack[1] # <<>>
     /\ Top(1).h = Root
     /\ Top(1).pc = "init"
     /\ Top(1).i <= Len(Top(1).init.deps)
     /\ Top(1).init.deps[Top(1).i] \in KeysOf(Scoped)
     /\ stack'[1] # stack[1])
    => /\ Len(inst') > Len(inst)
       /\ inst'[Len(inst) + 1].ty = Top(1).init.deps[Top(1).i]
       /\ inst'[Len(inst) + 1].by = Root
       /\ heap' = heap

\* C20: a scoped key resolved on the root container, by a call or for a
\* field of a factory running on the container, is resolved like a transient
\* one: the factory runs every time, each run's instance is returned once and
\* no cache takes it.
C20_RootScopedIsTransient ==
    [](C20_Fresh /\ C20_EveryCall) /\ [][C20_Nested]_vars

\* C20 witness: the container returned an instance of a scoped key, and a
\* factory running on the container got two further instances of the key for
\* its two fields; no cache holds any of the three.
C20_Witness ==
    \E a, z \in Instances :
        /\ inst[a].status = "built" /\ inst[a].by = Root
        /\ Len(inst[a].deps) = 2
        /\ inst[a].deps[1] # inst[a].deps[2]
        /\ inst[inst[a].deps[1]].ty \in KeysOf(Scoped)
        /\ inst[z].ty = inst[inst[a].deps[1]].ty
        /\ inst[z].by = Root /\ inst[z].cnt = 1
        /\ z \notin {inst[a].deps[1], inst[a].deps[2]}
        /\ inst[z].hs = {Root}
        /\ Cached = {}

\* Every cache object is still there after a step, with every key it had.
C21_KeysKept ==
    \A o \in DOMAIN heap :
        /\ o \in DOMAIN heap'
        /\ DOMAIN heap[o] \subseteq DOMAIN heap'[o]

\* Every key of a cache is a key of the registry.
C21_KeysRegistered ==
    /\ DOMAIN heap[collection.singletons] \subseteq DOMAIN collection.service_info
    /\ \A s \in ScopeIds :
         DOMAIN heap[scopes[s].scoped] \subseteq DOMAIN scopes[s].services

\* C21: no resolution, failed lookup or scope creation removes a key from
\* the Singleton Cache or from a Scope Cache, so a key that is in a cache is
\* in it in every later state; and every key in a cache is registered.
C21_CacheKeysOnlyGrow == [](C21_KeysRegistered) /\ [][C21_KeysKept]_vars

\* C21 witness: with an entry in the first scope's cache, a second scope was
\* created and a lookup of a key without registration failed.
C21_Witness ==
    /\ Len(scopes) = 2
    /\ heap[scopes[1].scoped] # EmptyMap
    /\ heap[scopes[2].scoped] = EmptyMap
    /\ NotRegistered(res[1])
    /\ res[1].out \in {"none", "panic"}

====
